---- MODULE Spec2Model ----
(***************************************************************************)
(* Model of SipSession (sip-session.ts): the lifecycle of one camera call: *)
(* start() with its three suspension points and the expired-ding retry,    *)
(* the rtcp-mux aliasing of the RTCP splitters, the ICE / STUN keep-alive  *)
(* branch, the ffmpeg transcoder wiring and the guarded teardown           *)
(* callEnded().  The collaborators whose code is not part of the sources   *)
(* (SipCall, Subscribed, RtpSplitter, FfmpegProcess, reservePorts) are     *)
(* modelled by call counts and by nondeterministic outcomes.               *)
(***************************************************************************)
EXTENDS Integers, FiniteSets, Sequences, TLC

VARIABLES
    hasStarted,         \* SipSession.hasStarted
    hasCallEnded,       \* SipSession.hasCallEnded
    sipCall,            \* identity of this.sipCall: the n-th SipCall constructed
    destroyed,          \* destroyed[c]: number of destroy() calls on SipCall c
    audioRtcpSplitter,  \* the handle this.audioRtcpSplitter refers to
    videoRtcpSplitter,  \* the handle this.videoRtcpSplitter refers to
    closes,             \* closes[h]: number of close() calls on handle h
    registered,         \* subscriptions handed to Subscribed.addSubscriptions
    live,               \* subscriptions that have not been unsubscribed
    published,          \* number of onCallEndedSubject.next() calls
    byeCount,           \* number of sipCall.sendBye() calls
    endedBy,            \* the trigger whose callEnded() ran the teardown body
    pc,                 \* position of the start() call that passed the guards
    result,             \* settlement of that start() call's promise
    thrown,             \* the usage error of the latest start() invocation
    ffmpegOptions,      \* the argument of start()
    videoPort,          \* reserved local ports
    audioPort,
    rtpDescription,     \* the description the invite resolved with
    inviteCount,        \* number of sipCall.invite() calls
    inviteError,        \* what the latest rejected invite() rejected with
    fetchCount,         \* number of camera.getUpdatedSipOptions() calls
    ffStarted,          \* startTranscoder has constructed the FfmpegProcess
    ffStops,            \* number of ff.stop() calls
    ffExited,           \* the FfmpegProcess has run its exitCallback
    handlers,           \* message handlers registered by forwardPacketsToFfmpeg
    responders,         \* splitters given to createStunResponder
    stunLog,            \* the distinct sendStunBindingRequest argument records
    stunSent,           \* number of sendStunBindingRequest calls per type
    ticks,              \* number of timer(0, 500) emissions delivered
    remoteEnded,        \* SipCalls whose onEndedByRemote has fired
    stopCalls,          \* number of stop() calls
    startCalls,         \* number of start() calls made by the caller
    teardownLog,        \* the calls made by the body of callEnded, in order
    startLog,           \* the calls made by start() after the invite, in order
    stdin,              \* the lines written to the FfmpegProcess
    cryptoLine,         \* cryptoLine[s]: what createCryptoLine returns for stream s
    forwarded,          \* the latest message given to a message handler, and its answer
    lastCall            \* the caller's latest start(): earlier calls, flags seen, error thrown,
                        \* error thrown by the call before it

teardownVars == <<hasCallEnded, byeCount, endedBy, published, destroyed, closes, live, ffStops,
                  teardownLog>>

transcoderVars == <<startLog, stdin, cryptoLine, forwarded>>

startVars == <<hasStarted, pc, result, thrown, ffmpegOptions>>

vars == <<hasStarted, hasCallEnded, sipCall, destroyed, audioRtcpSplitter,
          videoRtcpSplitter, closes, registered, live, published, byeCount,
          endedBy, pc, result, thrown, ffmpegOptions, videoPort, audioPort,
          rtpDescription, inviteCount, inviteError, fetchCount, ffStarted, ffStops,
          ffExited,
          handlers, responders,
          stunLog, stunSent, ticks, remoteEnded, stopCalls, startCalls, lastCall,
          teardownLog, startLog, stdin, cryptoLine, forwarded>>

\* everything but the bookkeeping of the caller's start() calls
sessionVars == <<hasStarted, hasCallEnded, sipCall, destroyed, audioRtcpSplitter,
          videoRtcpSplitter, closes, registered, live, published, byeCount,
          endedBy, pc, result, ffmpegOptions, videoPort, audioPort,
          rtpDescription, inviteCount, inviteError, fetchCount, ffStarted, ffStops,
          ffExited,
          handlers, responders,
          stunLog, stunSent, ticks, remoteEnded, stopCalls,
          teardownLog, startLog, stdin, cryptoLine, forwarded>>

----------------------------------------------------------------------------
(* Bounds *)

MaxRetries == 2      \* expired-ding failures the environment produces

MaxTicks == 2        \* keep-alive timer emissions delivered

MaxStops == 2        \* stop() calls

MaxStartCalls == 2   \* start() calls made by the caller

----------------------------------------------------------------------------
(* Values *)

\* the four RtpSplitter objects the session is constructed with
Handles == {"audio", "audioRtcp", "video", "videoRtcp"}

Streams == {"audio", "video"}

\* start(ffmpegOptions?): absent, given, given with video: false
FfmpegChoices == {"undefined", "video", "novideo"}

\* remote RTP / RTCP port numbers of a description
RemotePorts == {1, 2}

\* ports reservePorts can hand out
ReservablePorts == {5000, 6000}

\* rejections of invite() other than expiredDingError
GenericErrors == {"NetworkError", "Busy"}

SipCalls == 1..(MaxRetries + 1)

NoDescription ==
    [id |-> 0,
     audio |-> [port |-> 0, rtcpPort |-> 0],
     video |-> [port |-> 0, rtcpPort |-> 0, iceUFrag |-> FALSE]]

\* the descriptions the n-th invite can resolve with
Descriptions(n) ==
    { [id |-> n,
       audio |-> [port |-> ap, rtcpPort |-> ar],
       video |-> [port |-> vp, rtcpPort |-> vr, iceUFrag |-> ice]] :
         ap \in RemotePorts, ar \in RemotePorts,
         vp \in RemotePorts, vr \in RemotePorts, ice \in BOOLEAN }

EndedByRemoteSub(c) == [kind |-> "onEndedByRemote", call |-> c]

TimerSub == [kind |-> "timer", call |-> 0]

LatchSubs == {[kind |-> "audioLatch", call |-> 0], [kind |-> "videoLatch", call |-> 0]}

\* inbound packets, by what isStunMessage and the transcoder make of them
Messages == {"stun", "rtp", "rtcp"}

isStunMessage(message) == message = "stun"

\* the line createCryptoLine builds from a stream's srtp key and salt
CryptoLineOf(s) ==
    IF s = "audio"
    THEN "a=crypto:1 AES_CM_128_HMAC_SHA1_80 inline:<audio srtp>"
    ELSE "a=crypto:1 AES_CM_128_HMAC_SHA1_80 inline:<video srtp>"

\* a line of the sdp input; port is the number its template interpolates
Line(text, port) == [text |-> text, port |-> port]

\* a call made by the session: op on the object reached through the field via
Event(op, via, on) == [op |-> op, via |-> via, on |-> on]

NothingForwarded == [splitter |-> "none", message |-> "none", answer |-> {}]

----------------------------------------------------------------------------
(* Subscribed *)

addSubscriptions(S) ==
    /\ registered' = registered \cup S
    /\ live' = live \cup S

Unsubscribed(l) == l \ registered

----------------------------------------------------------------------------
(* RtpSplitter.close() *)

Close(cl, h) == [cl EXCEPT ![h] = @ + 1]

----------------------------------------------------------------------------
(* Construction *)

\* the state the field initialisers and the constructor leave
Constructed ==
    /\ hasStarted = FALSE
    /\ hasCallEnded = FALSE
    /\ sipCall = 1
    /\ destroyed = [c \in SipCalls |-> 0]
    /\ audioRtcpSplitter = "audioRtcp"
    /\ videoRtcpSplitter = "videoRtcp"
    /\ closes = [h \in Handles |-> 0]
    /\ registered = {EndedByRemoteSub(1)}
    /\ live = {EndedByRemoteSub(1)}
    /\ published = 0
    /\ byeCount = 0
    /\ endedBy = "none"
    /\ pc = "idle"
    /\ result = "none"
    /\ thrown = "none"
    /\ ffmpegOptions = "undefined"
    /\ videoPort = 0
    /\ audioPort = 0
    /\ rtpDescription = NoDescription
    /\ inviteCount = 0
    /\ inviteError = "none"
    /\ fetchCount = 0
    /\ ffStarted = FALSE
    /\ ffStops = 0
    /\ ffExited = FALSE
    /\ handlers = {}
    /\ responders = {}
    /\ stunLog = {}
    /\ stunSent = [s \in Streams |-> 0]
    /\ ticks = 0
    /\ remoteEnded = {}
    /\ stopCalls = 0
    /\ startCalls = 0
    /\ lastCall = [prior |-> 0, started |-> FALSE, ended |-> FALSE, error |-> "none",
                   previous |-> "none"]
    /\ teardownLog = <<>>
    /\ startLog = <<>>
    /\ stdin = <<>>
    /\ forwarded = NothingForwarded

Init ==
    /\ Constructed
    /\ cryptoLine = [s \in Streams |-> CryptoLineOf(s)]

\* the same session, createCryptoLine returning a line or nothing
InitTranscoder ==
    /\ Constructed
    /\ cryptoLine \in [Streams -> {"", CryptoLineOf("audio"), CryptoLineOf("video")}]
    /\ \A s \in Streams : cryptoLine[s] \in {"", CryptoLineOf(s)}

----------------------------------------------------------------------------
(* Teardown *)

\* the body of callEnded closing the splitters before the SipCall is destroyed
TeardownEvents_ClosesFirst(sendBye) ==
    (IF sendBye THEN <<Event("sendBye", "sipCall", "")>> ELSE <<>>)
    \o <<Event("close", "audioSplitter", "audio"),
         Event("close", "audioRtcpSplitter", audioRtcpSplitter),
         Event("close", "videoSplitter", "video"),
         Event("close", "videoRtcpSplitter", videoRtcpSplitter),
         Event("next", "onCallEndedSubject", ""),
         Event("destroy", "sipCall", ""),
         Event("unsubscribe", "this", "")>>

\* the calls of the body of callEnded, in the order of its statements
TeardownEvents(sendBye) ==
    (IF sendBye THEN <<Event("sendBye", "sipCall", "")>> ELSE <<>>)
    \o <<Event("next", "onCallEndedSubject", ""),
         Event("destroy", "sipCall", ""),
         Event("close", "audioSplitter", "audio"),
         Event("close", "audioRtcpSplitter", audioRtcpSplitter),
         Event("close", "videoSplitter", "video"),
         Event("close", "videoRtcpSplitter", videoRtcpSplitter),
         Event("unsubscribe", "this", "")>>

\* callEnded without its hasCallEnded guard
callEnded_Unguarded(sendBye, trigger) ==
    /\ hasCallEnded' = TRUE
    /\ endedBy' = IF hasCallEnded THEN endedBy ELSE trigger
    /\ byeCount' = IF sendBye THEN byeCount + 1 ELSE byeCount
    /\ published' = published + 1
    /\ ffStops' = IF ffStarted THEN ffStops + 1 ELSE ffStops
    /\ destroyed' = [destroyed EXCEPT ![sipCall] = @ + 1]
    /\ closes' = Close(Close(Close(Close(closes, "audio"), audioRtcpSplitter),
                             "video"), videoRtcpSplitter)
    /\ live' = Unsubscribed(live)
    /\ teardownLog' = teardownLog \o TeardownEvents(sendBye)

\* callEnded that never sets hasCallEnded
callEnded_FlagNotSet(sendBye, trigger) ==
    IF hasCallEnded
    THEN UNCHANGED teardownVars
    ELSE /\ endedBy' = trigger
         /\ byeCount' = IF sendBye THEN byeCount + 1 ELSE byeCount
         /\ published' = published + 1
         /\ ffStops' = IF ffStarted THEN ffStops + 1 ELSE ffStops
         /\ destroyed' = [destroyed EXCEPT ![sipCall] = @ + 1]
         /\ closes' = Close(Close(Close(Close(closes, "audio"), audioRtcpSplitter),
                                  "video"), videoRtcpSplitter)
         /\ live' = Unsubscribed(live)
         /\ teardownLog' = teardownLog \o TeardownEvents(sendBye)
         /\ UNCHANGED hasCallEnded

\* callEnded(sendBye); trigger names the caller and is only recorded
callEnded(sendBye, trigger) ==
    IF hasCallEnded
    THEN UNCHANGED teardownVars
    ELSE /\ hasCallEnded' = TRUE
         /\ endedBy' = trigger
         /\ byeCount' = IF sendBye THEN byeCount + 1 ELSE byeCount
         /\ published' = published + 1
         /\ ffStops' = IF ffStarted THEN ffStops + 1 ELSE ffStops
         /\ destroyed' = [destroyed EXCEPT ![sipCall] = @ + 1]
         /\ closes' = Close(Close(Close(Close(closes, "audio"), audioRtcpSplitter),
                                  "video"), videoRtcpSplitter)
         /\ live' = Unsubscribed(live)
         /\ teardownLog' = teardownLog \o TeardownEvents(sendBye)

stop ==
    /\ stopCalls < MaxStops
    /\ stopCalls' = stopCalls + 1
    /\ callEnded(TRUE, "stop")
    /\ UNCHANGED <<startVars, sipCall, audioRtcpSplitter, videoRtcpSplitter, registered,
                   videoPort, audioPort, rtpDescription, inviteCount, inviteError, fetchCount,
                   ffStarted, ffExited, handlers, responders, stunLog, stunSent, ticks,
                   remoteEnded, startCalls, lastCall, transcoderVars>>

\* the onEndedByRemote subscription asking for a BYE
onEndedByRemote_SendsBye(c) ==
    /\ EndedByRemoteSub(c) \in live
    /\ c \notin remoteEnded
    /\ remoteEnded' = remoteEnded \cup {c}
    /\ callEnded(TRUE, "remote")
    /\ UNCHANGED <<startVars, sipCall, audioRtcpSplitter, videoRtcpSplitter, registered,
                   videoPort, audioPort, rtpDescription, inviteCount, inviteError,
                   fetchCount, ffStarted, ffExited, handlers, responders, stunLog,
                   stunSent, ticks, stopCalls, startCalls, lastCall, transcoderVars>>

\* the subscription createSipCall makes on call.onEndedByRemote
onEndedByRemote(c) ==
    /\ EndedByRemoteSub(c) \in live
    /\ c \notin remoteEnded
    /\ remoteEnded' = remoteEnded \cup {c}
    /\ callEnded(FALSE, "remote")
    /\ UNCHANGED <<startVars, sipCall, audioRtcpSplitter, videoRtcpSplitter, registered,
                   videoPort, audioPort, rtpDescription, inviteCount, inviteError, fetchCount,
                   ffStarted, ffExited, handlers, responders, stunLog, stunSent, ticks,
                   stopCalls, startCalls, lastCall, transcoderVars>>

\* the exitCallback given to FfmpegProcess
exitCallback ==
    /\ ffStarted
    /\ ~ffExited
    /\ ffExited' = TRUE
    /\ callEnded(TRUE, "ffmpegExit")
    /\ UNCHANGED <<startVars, sipCall, audioRtcpSplitter, videoRtcpSplitter, registered,
                   videoPort, audioPort, rtpDescription, inviteCount, inviteError, fetchCount,
                   ffStarted, handlers, responders, stunLog, stunSent, ticks,
                   remoteEnded, stopCalls, startCalls, lastCall, transcoderVars>>

----------------------------------------------------------------------------
(* start() *)

\* start() testing hasCallEnded before hasStarted
start_EndedFirst(started, opts) ==
    IF hasCallEnded
    THEN /\ thrown' = "AlreadyEnded"
         /\ hasStarted' = TRUE
         /\ IF started
            THEN UNCHANGED <<pc, result, ffmpegOptions>>
            ELSE /\ pc' = "rejected"
                 /\ result' = "AlreadyEnded"
                 /\ UNCHANGED ffmpegOptions
    ELSE IF started
         THEN /\ thrown' = "AlreadyStarted"
              /\ UNCHANGED <<hasStarted, pc, result, ffmpegOptions>>
         ELSE /\ hasStarted' = TRUE
              /\ thrown' = "none"
              /\ pc' = "reserveVideo"
              /\ result' = "pending"
              /\ ffmpegOptions' = opts

\* start() without its hasCallEnded test
start_NoEndedTest(started, opts) ==
    IF started
    THEN /\ thrown' = "AlreadyStarted"
         /\ UNCHANGED <<hasStarted, pc, result, ffmpegOptions>>
    ELSE /\ hasStarted' = TRUE
         /\ thrown' = "none"
         /\ pc' = "reserveVideo"
         /\ result' = "pending"
         /\ ffmpegOptions' = opts

\* the guards at the head of start(); started is this.hasStarted on entry
start(started, opts) ==
    IF started
    THEN /\ thrown' = "AlreadyStarted"
         /\ UNCHANGED <<hasStarted, pc, result, ffmpegOptions>>
    ELSE /\ hasStarted' = TRUE
         /\ IF hasCallEnded
            THEN /\ thrown' = "AlreadyEnded"
                 /\ pc' = "rejected"
                 /\ result' = "AlreadyEnded"
                 /\ UNCHANGED ffmpegOptions
            ELSE /\ thrown' = "none"
                 /\ pc' = "reserveVideo"
                 /\ result' = "pending"
                 /\ ffmpegOptions' = opts

\* a call of start() by the user of the session
StartCall(opts) ==
    /\ startCalls < MaxStartCalls
    /\ startCalls' = startCalls + 1
    /\ start(hasStarted, opts)
    /\ lastCall' = [prior |-> startCalls, started |-> hasStarted,
                    ended |-> hasCallEnded, error |-> thrown',
                    previous |-> lastCall.error]
    /\ UNCHANGED <<teardownVars, sipCall, audioRtcpSplitter, videoRtcpSplitter,
                   registered, videoPort, audioPort, rtpDescription, inviteCount, inviteError,
                   fetchCount, ffStarted, ffExited, handlers, responders, stunLog,
                   stunSent, ticks, remoteEnded, stopCalls, transcoderVars>>

\* the catch block rethrowing without the teardown
catch_NoTeardown(e) ==
    IF e = "ExpiredSession"
    THEN /\ pc' = "fetch"
         /\ fetchCount' = fetchCount + 1
         /\ UNCHANGED <<result, teardownVars>>
    ELSE /\ pc' = "rejected"
         /\ result' = e
         /\ UNCHANGED <<fetchCount, teardownVars>>

\* the catch block up to its await or its throw
catch(e) ==
    IF e = "ExpiredSession"
    THEN /\ pc' = "fetch"
         /\ fetchCount' = fetchCount + 1
         /\ UNCHANGED <<result, teardownVars>>
    ELSE /\ callEnded(TRUE, "failure")
         /\ pc' = "rejected"
         /\ result' = e
         /\ UNCHANGED fetchCount

\* videoPort = await this.reservePort(1)
ReserveVideoPort(p) ==
    /\ pc = "reserveVideo"
    /\ videoPort' = p
    /\ pc' = "reserveAudio"
    /\ UNCHANGED <<hasStarted, result, thrown, ffmpegOptions, teardownVars, sipCall,
                   audioRtcpSplitter, videoRtcpSplitter, registered, audioPort,
                   rtpDescription, inviteCount, inviteError, fetchCount, ffStarted, ffExited,
                   handlers, responders, stunLog, stunSent, ticks, remoteEnded,
                   stopCalls, startCalls, lastCall, transcoderVars>>

\* audioPort = await this.reservePort(1), then this.sipCall.invite() is called
ReserveAudioPort(p) ==
    /\ pc = "reserveAudio"
    /\ p # videoPort
    /\ audioPort' = p
    /\ inviteCount' = inviteCount + 1
    /\ pc' = "invite"
    /\ UNCHANGED <<hasStarted, result, thrown, ffmpegOptions, teardownVars, sipCall,
                   audioRtcpSplitter, videoRtcpSplitter, registered, videoPort,
                   rtpDescription, inviteError, fetchCount, ffStarted, ffExited,
                   handlers, responders, stunLog, stunSent, ticks, remoteEnded,
                   stopCalls, startCalls, lastCall, transcoderVars>>

\* a reservePort() promise rejects
ReservePortFails ==
    /\ pc \in {"reserveVideo", "reserveAudio"}
    /\ catch("PortError")
    /\ UNCHANGED <<hasStarted, thrown, ffmpegOptions, sipCall,
                   audioRtcpSplitter, videoRtcpSplitter, registered, videoPort, audioPort,
                   rtpDescription, inviteCount, inviteError, ffStarted, ffExited,
                   handlers, responders, stunLog, stunSent, ticks, remoteEnded,
                   stopCalls, startCalls, lastCall, transcoderVars>>

\* the invite() promise rejects with e
InviteFails(e) ==
    /\ pc = "invite"
    /\ e = "ExpiredSession" => fetchCount < MaxRetries
    /\ inviteError' = e
    /\ catch(e)
    /\ UNCHANGED <<hasStarted, thrown, ffmpegOptions, sipCall,
                   audioRtcpSplitter, videoRtcpSplitter, registered, videoPort, audioPort,
                   rtpDescription, inviteCount, ffStarted, ffExited,
                   handlers, responders, stunLog, stunSent, ticks, remoteEnded,
                   stopCalls, startCalls, lastCall, transcoderVars>>

\* the closure sendStunRequests of start(); audioRtcp is this.audioRtcpSplitter
\* when the closure runs
sendStunRequests(audioRtcp) ==
    /\ stunLog' = stunLog \cup
          { [type |-> "audio", rtpSplitter |-> "audio", rtcpSplitter |-> audioRtcp],
            [type |-> "video", rtpSplitter |-> "video", rtcpSplitter |-> audioRtcp] }
    /\ stunSent' = [s \in Streams |-> stunSent[s] + 1]

\* inputSdpLines holding the video lines whatever transcodeVideoStream is
inputSdpLines_AlwaysVideo(opts) ==
    <<Line("v=0", 0),
      Line("o=105202070 3747 461 IN IP4 127.0.0.1", 0),
      Line("s=Talk", 0),
      Line("c=IN IP4 127.0.0.1", 0),
      Line("b=AS:380", 0),
      Line("t=0 0", 0),
      Line("a=rtcp-xr:rcvr-rtt=all:10000 stat-summary=loss,dup,jitt,TTL voip-metrics", 0),
      Line("m=audio ${audioPort} RTP/SAVP 0 101", audioPort),
      Line("a=rtpmap:0 PCMU/8000", 0),
      Line(cryptoLine["audio"], 0),
      Line("a=rtcp:${audioRtcpPort} IN IP4 127.0.0.1", audioPort + 1),
      Line("m=video ${videoPort} RTP/SAVP 99", videoPort),
      Line("a=rtpmap:99 H264/90000", 0),
      Line(cryptoLine["video"], 0),
      Line("a=rtcp:${videoRtcpPort} IN IP4 127.0.0.1", videoPort + 1)>>

\* inputSdpLines after the push of the video lines
inputSdpLines(opts) ==
    LET transcodeVideoStream == opts # "novideo"
        audioLines ==
            <<Line("v=0", 0),
              Line("o=105202070 3747 461 IN IP4 127.0.0.1", 0),
              Line("s=Talk", 0),
              Line("c=IN IP4 127.0.0.1", 0),
              Line("b=AS:380", 0),
              Line("t=0 0", 0),
              Line("a=rtcp-xr:rcvr-rtt=all:10000 stat-summary=loss,dup,jitt,TTL voip-metrics", 0),
              Line("m=audio ${audioPort} RTP/SAVP 0 101", audioPort),
              Line("a=rtpmap:0 PCMU/8000", 0),
              Line(cryptoLine["audio"], 0),
              Line("a=rtcp:${audioRtcpPort} IN IP4 127.0.0.1", audioPort + 1)>>
        videoLines ==
            <<Line("m=video ${videoPort} RTP/SAVP 99", videoPort),
              Line("a=rtpmap:99 H264/90000", 0),
              Line(cryptoLine["video"], 0),
              Line("a=rtcp:${videoRtcpPort} IN IP4 127.0.0.1", videoPort + 1)>>
    IN  IF transcodeVideoStream THEN audioLines \o videoLines ELSE audioLines

\* Boolean(x) of a line: the empty string is the only falsy one
Truthy(x) == x.text # ""

\* inputSdpLines.filter((x) => Boolean(x)), the lines join('\n') puts in the document
filter(lines) == SelectSeq(lines, Truthy)

\* the handler answering { port } to a STUN message as well
forwardPacketsToFfmpeg_ForwardsStun(port, message) == {port}

\* the answer of the handler forwardPacketsToFfmpeg registers: null or { port }
forwardPacketsToFfmpeg(port, message) ==
    IF isStunMessage(message) THEN {} ELSE {port}

\* the two requests of sendStunRequests
StunEvents ==
    <<Event("sendStunBindingRequest", "audioSplitter", "audio"),
      Event("sendStunBindingRequest", "videoSplitter", "video")>>

\* the calls of startTranscoder on the splitters and on ff, in statement order
TranscoderEvents(opts) ==
    LET transcodeVideoStream == opts # "novideo"
    IN  (IF transcodeVideoStream
         THEN <<Event("addMessageHandler", "videoSplitter", "video"),
                Event("addMessageHandler", "videoRtcpSplitter", videoRtcpSplitter)>>
         ELSE <<>>)
        \o <<Event("subscribe", "onCallEnded", ""),
             Event("writeStdin", "ff", ""),
             Event("addMessageHandler", "audioSplitter", "audio"),
             Event("addMessageHandler", "audioRtcpSplitter", audioRtcpSplitter)>>

\* the calls of the ICE / keep-alive branch
NatEvents(desc) ==
    IF desc.video.iceUFrag
    THEN <<Event("createStunResponder", "audioSplitter", "audio"),
           Event("createStunResponder", "videoSplitter", "video")>> \o StunEvents
    ELSE <<Event("timer", "this", "")>>

\* the try block running the ICE / keep-alive branch before startTranscoder
ContinuationEvents_NatFirst(opts, desc) ==
    NatEvents(desc)
    \o (IF opts # "undefined" THEN TranscoderEvents(opts) ELSE <<>>)

\* the calls of the try block after invite() has resolved, in statement order
ContinuationEvents(opts, desc) ==
    (IF opts # "undefined" THEN TranscoderEvents(opts) ELSE <<>>)
    \o NatEvents(desc)

\* startTranscoder subscribing to a subject that does not replay
startTranscoder_NoReplay(opts) ==
    LET transcodeVideoStream == opts # "novideo"
        videoHandlers ==
            IF transcodeVideoStream
            THEN { [splitter |-> "video", port |-> videoPort],
                   [splitter |-> videoRtcpSplitter, port |-> videoPort + 1] }
            ELSE {}
        audioHandlers ==
            { [splitter |-> "audio", port |-> audioPort],
              [splitter |-> audioRtcpSplitter, port |-> audioPort + 1] }
    IN  /\ ffStarted' = TRUE
        /\ ffStops' = ffStops
        /\ stdin' = filter(inputSdpLines(opts))
        /\ handlers' = handlers \cup videoHandlers \cup audioHandlers

\* startTranscoder(ffmpegOptions, rtpDescription, audioPort, videoPort)
startTranscoder(opts) ==
    LET transcodeVideoStream == opts # "novideo"
        videoHandlers ==
            IF transcodeVideoStream
            THEN { [splitter |-> "video", port |-> videoPort],
                   [splitter |-> videoRtcpSplitter, port |-> videoPort + 1] }
            ELSE {}
        audioHandlers ==
            { [splitter |-> "audio", port |-> audioPort],
              [splitter |-> audioRtcpSplitter, port |-> audioPort + 1] }
    IN  /\ ffStarted' = TRUE
        \* onCallEnded replays the last notification to a late subscriber
        /\ ffStops' = IF published > 0 THEN ffStops + 1 ELSE ffStops
        /\ stdin' = filter(inputSdpLines(opts))
        /\ handlers' = handlers \cup videoHandlers \cup audioHandlers

\* rtcp-mux deciding the video alias by the audio ports
RtcpMux_VideoByAudioPorts(desc) ==
    LET audioMux == desc.audio.port = desc.audio.rtcpPort
        c1 == IF audioMux THEN Close(closes, audioRtcpSplitter) ELSE closes
        c2 == IF audioMux THEN Close(c1, videoRtcpSplitter) ELSE c1
    IN  /\ audioRtcpSplitter' = IF audioMux THEN "audio" ELSE audioRtcpSplitter
        /\ videoRtcpSplitter' = IF audioMux THEN "video" ELSE videoRtcpSplitter
        /\ closes' = c2

\* if rtcp-mux is supported, rtp splitter will be used for both rtp and rtcp
RtcpMux(desc) ==
    LET audioMux == desc.audio.port = desc.audio.rtcpPort
        videoMux == desc.video.port = desc.video.rtcpPort
        c1 == IF audioMux THEN Close(closes, audioRtcpSplitter) ELSE closes
        c2 == IF videoMux THEN Close(c1, videoRtcpSplitter) ELSE c1
    IN  /\ audioRtcpSplitter' = IF audioMux THEN "audio" ELSE audioRtcpSplitter
        /\ videoRtcpSplitter' = IF videoMux THEN "video" ELSE videoRtcpSplitter
        /\ closes' = c2

\* the ICE / STUN keep-alive branch and the two latch subscriptions
NatTraversal(desc) ==
    IF desc.video.iceUFrag
    THEN /\ responders' = responders \cup {"audio", "video"}
         /\ sendStunRequests(audioRtcpSplitter')
         /\ addSubscriptions(LatchSubs)
    ELSE /\ UNCHANGED <<responders, stunLog, stunSent>>
         /\ addSubscriptions({TimerSub} \cup LatchSubs)

\* the invite() promise resolves with desc: the rest of the try block
InviteSucceeds(desc) ==
    /\ pc = "invite"
    /\ rtpDescription' = desc
    /\ IF ffmpegOptions # "undefined"
       THEN startTranscoder(ffmpegOptions)
       ELSE UNCHANGED <<ffStarted, ffStops, handlers, stdin>>
    /\ startLog' = startLog \o ContinuationEvents(ffmpegOptions, desc)
    /\ RtcpMux(desc)
    /\ NatTraversal(desc)
    /\ pc' = "returned"
    /\ result' = "description"
    /\ UNCHANGED <<hasStarted, thrown, ffmpegOptions, hasCallEnded, byeCount, endedBy,
                   published, destroyed, sipCall, videoPort, audioPort, inviteCount, inviteError,
                   fetchCount, ffExited, ticks, remoteEnded, stopCalls, startCalls,
                   lastCall, teardownLog, cryptoLine, forwarded>>

\* an emission of timer(0, 500) reaches the subscriber
TimerTick ==
    /\ TimerSub \in live
    /\ ticks < MaxTicks
    /\ ticks' = ticks + 1
    /\ sendStunRequests(audioRtcpSplitter)
    /\ startLog' = startLog \o StunEvents
    /\ UNCHANGED <<startVars, teardownVars, sipCall, audioRtcpSplitter,
                   videoRtcpSplitter, registered, videoPort, audioPort, rtpDescription,
                   inviteCount, inviteError, fetchCount, ffStarted, ffExited, handlers, responders,
                   remoteEnded, stopCalls, startCalls, lastCall, stdin, cryptoLine, forwarded>>

\* createSipCall(sipOptions) on a session that has a sipCall
createSipCall ==
    /\ destroyed' = [destroyed EXCEPT ![sipCall] = @ + 1]
    /\ sipCall' = sipCall + 1
    /\ addSubscriptions({EndedByRemoteSub(sipCall + 1)})

\* the catch block after its await: rebuild the call, reset the flag, start again
retry ==
    /\ createSipCall
    /\ start(FALSE, ffmpegOptions)

\* camera.getUpdatedSipOptions() resolves
UpdatedSipOptions ==
    /\ pc = "fetch"
    /\ retry
    /\ UNCHANGED <<hasCallEnded, byeCount, endedBy, published, closes, ffStops,
                   teardownLog, audioRtcpSplitter, videoRtcpSplitter, videoPort, audioPort,
                   rtpDescription, inviteCount, inviteError, fetchCount, ffStarted, ffExited,
                   handlers, responders, stunLog, stunSent, ticks, remoteEnded,
                   stopCalls, startCalls, lastCall, transcoderVars>>

\* camera.getUpdatedSipOptions() rejects: the rejection leaves start() as it is
UpdatedSipOptionsFails ==
    /\ pc = "fetch"
    /\ pc' = "rejected"
    /\ result' = "FetchError"
    /\ UNCHANGED <<hasStarted, thrown, ffmpegOptions, teardownVars, sipCall,
                   audioRtcpSplitter, videoRtcpSplitter, registered, videoPort,
                   audioPort, rtpDescription, inviteCount, inviteError, fetchCount, ffStarted,
                   ffExited, handlers, responders, stunLog, stunSent, ticks,
                   remoteEnded, stopCalls, startCalls, lastCall, transcoderVars>>

----------------------------------------------------------------------------
(* Specification *)

\* a splitter hands an inbound message to a handler registered on it
ReceivePacket(h, message) ==
    /\ \E hd \in handlers :
          /\ hd.splitter = h
          /\ forwarded' = [splitter |-> h, message |-> message,
                           answer |-> forwardPacketsToFfmpeg(hd.port, message)]
    /\ UNCHANGED <<startVars, teardownVars, sipCall, audioRtcpSplitter,
                   videoRtcpSplitter, registered, videoPort, audioPort, rtpDescription,
                   inviteCount, inviteError, fetchCount, ffStarted, ffExited, handlers,
                   responders, stunLog, stunSent, ticks, remoteEnded, stopCalls,
                   startCalls, lastCall, startLog, stdin, cryptoLine>>

Next ==
    \/ \E opts \in FfmpegChoices : StartCall(opts)
    \/ \E p \in ReservablePorts : ReserveVideoPort(p)
    \/ \E p \in ReservablePorts : ReserveAudioPort(p)
    \/ ReservePortFails
    \/ \E desc \in Descriptions(inviteCount) : InviteSucceeds(desc)
    \/ \E e \in GenericErrors \cup {"ExpiredSession"} : InviteFails(e)
    \/ UpdatedSipOptions
    \/ UpdatedSipOptionsFails
    \/ TimerTick
    \/ stop
    \/ \E c \in SipCalls : onEndedByRemote(c)
    \/ exitCallback

Spec == Init /\ [][Next]_vars

\* the session with its transcoder: a start() whose invite() resolves, the
\* packets its splitters receive, and stop()
NextTranscoder ==
    \/ \E opts \in FfmpegChoices : StartCall(opts)
    \/ \E p \in ReservablePorts : ReserveVideoPort(p)
    \/ \E p \in ReservablePorts : ReserveAudioPort(p)
    \/ \E desc \in Descriptions(inviteCount) : InviteSucceeds(desc)
    \/ \E h \in Handles, message \in Messages : ReceivePacket(h, message)
    \/ stop

SpecTranscoder == InitTranscoder /\ [][NextTranscoder]_vars

----------------------------------------------------------------------------
(* Usage errors of start() *)

\* C1: once start() has been called on a session, whatever has become of that
\* first call, a further call of start() throws AlreadyStarted and changes
\* nothing of the session: no flag, no signaling client, no handle, no
\* subscription, no reservation, invite or teardown.
C1_SecondStartRejected ==
    [][ (startCalls' = startCalls + 1 /\ startCalls >= 1)
          => (thrown' = "AlreadyStarted" /\ UNCHANGED sessionVars) ]_vars

\* a second start() was rejected while the first one waits for the refreshed
\* sip options of the expired-ding retry
C1_Witness ==
    /\ lastCall.prior = 1
    /\ lastCall.error = "AlreadyStarted"
    /\ pc = "fetch"

\* C2 as stated: whenever teardown has run, a call of start() throws
\* AlreadyEnded, whether or not start() had been called before.
C2_StartAfterTeardown ==
    lastCall.ended => lastCall.error = "AlreadyEnded"

\* C2 amended: on a session whose teardown has run, a call of start() throws
\* AlreadyEnded when it is the first call of start() on the session, and
\* AlreadyStarted when start() had been called before.
C2_StartAfterTeardownAmended ==
    lastCall.ended =>
        lastCall.error = (IF lastCall.prior = 0 THEN "AlreadyEnded" ELSE "AlreadyStarted")

\* the first start() of a session came after a teardown and threw AlreadyEnded
C2_Witness ==
    /\ lastCall.ended
    /\ lastCall.prior = 0
    /\ lastCall.error = "AlreadyEnded"
    /\ result = "AlreadyEnded"

----------------------------------------------------------------------------
(* Teardown *)

\* C3: once stop() has been called, on a session the remote did not end
\* first, exactly one sendBye has been made, however many stop() calls there
\* were and wherever start() stood.
C3_OneBye ==
    (stopCalls >= 1 /\ endedBy # "remote") => byeCount = 1

\* stop() was called twice on a session whose start() had returned
C3_Witness ==
    /\ stopCalls = MaxStops
    /\ endedBy = "stop"
    /\ result = "description"
    /\ byeCount = 1

\* C4: when the session has ended, close() has been called exactly once on
\* each of the four splitters, and never more than once on any of them, also
\* when an RTCP reference was aliased to its RTP splitter.
C4_EachHandleClosedOnce ==
    /\ \A h \in Handles : closes[h] <= 1
    /\ hasCallEnded => \A h \in Handles : closes[h] = 1

\* C5: the body of callEnded runs at most once: the call-ended notification
\* has been published exactly once when the session has ended and not at all
\* before, and hasCallEnded, once set, stays set.
C5_TeardownOnce ==
    /\ [](published <= 1 /\ (hasCallEnded <=> published = 1))
    /\ [][hasCallEnded => hasCallEnded']_vars

\* stop() twice, the remote's notification and the transcoder's exit have all
\* reached callEnded
C5_Witness ==
    /\ hasCallEnded
    /\ published = 1
    /\ stopCalls = MaxStops
    /\ remoteEnded # {}
    /\ ffExited

\* C6: a BYE has been sent exactly when the session has ended and the trigger
\* that ended it was not the remote's notification; after the remote ended
\* the call no later stop() or transcoder exit sends one.
C6_ByeUnlessRemoteEndedFirst ==
    byeCount = (IF hasCallEnded /\ endedBy # "remote" THEN 1 ELSE 0)

\* the remote ended the call, then stop() was called and the transcoder exited
C6_Witness ==
    /\ endedBy = "remote"
    /\ stopCalls >= 1
    /\ ffExited
    /\ byeCount = 0

----------------------------------------------------------------------------
(* The continuation of start() *)

\* the splitter the session was constructed with as RTCP splitter of a stream
OriginalRtcp(s) == IF s = "audio" THEN "audioRtcp" ELSE "videoRtcp"

\* the session's current RTCP reference of a stream
RtcpReference(s) == IF s = "audio" THEN audioRtcpSplitter ELSE videoRtcpSplitter

RtcpMuxed(s) == rtpDescription[s].port = rtpDescription[s].rtcpPort

\* C7: when start() has returned the description, for audio and for video
\* separately: with equal remote RTP and RTCP ports the original RTCP
\* splitter has been closed and the RTCP reference is the RTP splitter; with
\* different ports the reference is the original RTCP splitter, another
\* object than the RTP splitter, on which no close() has been called but the
\* one of the session's teardown.
C7_RtcpMuxAliasing ==
    result = "description" =>
        \A s \in Streams :
            IF RtcpMuxed(s)
            THEN /\ RtcpReference(s) = s
                 /\ closes[OriginalRtcp(s)] >= 1
            ELSE /\ RtcpReference(s) = OriginalRtcp(s)
                 /\ RtcpReference(s) # s
                 /\ closes[OriginalRtcp(s)] = (IF hasCallEnded THEN 1 ELSE 0)

\* a live session whose audio is multiplexed and whose video is not
C7_Witness ==
    /\ result = "description"
    /\ ~hasCallEnded
    /\ RtcpMuxed("audio")
    /\ ~RtcpMuxed("video")
    /\ audioRtcpSplitter = "audio"
    /\ videoRtcpSplitter = "videoRtcp"

\* C8: the strategy follows the video ICE user-fragment. With it: STUN
\* responders on the audio and video splitters, one binding request per
\* stream, no keep-alive timer. Without it: no responder, one binding request
\* per stream for every timer emission, and after the teardown no emission
\* sends anything (the timer subscription is not live).
C8_NatStrategies ==
    /\ result = "description" =>
          IF rtpDescription.video.iceUFrag
          THEN /\ responders = {"audio", "video"}
               /\ stunSent = [s \in Streams |-> 1]
               /\ TimerSub \notin registered
               /\ ticks = 0
          ELSE /\ responders = {}
               /\ stunSent = [s \in Streams |-> ticks]
               /\ TimerSub \in registered
    /\ hasCallEnded => TimerSub \notin live

\* C9: an expired-ding failure is retried once: one fetch of refreshed sip
\* options, one new SipCall, at most two invites for the start() call.
C9_SingleRetry ==
    /\ fetchCount <= 1
    /\ inviteCount <= 2
    /\ sipCall <= 2

\* C10 as stated: when start() has rejected with an invite error other than
\* the expired ding, the session has been torn down with a BYE sent.
C10_FatalInviteFailure ==
    result \in GenericErrors =>
        /\ hasCallEnded
        /\ byeCount = 1
        /\ destroyed[sipCall] >= 1
        /\ \A h \in Handles : closes[h] >= 1
        /\ live = {}

\* C10 amended: when start() has rejected with an invite error other than the
\* expired ding, the error is the one invite() rejected with, the session has
\* ended, its SipCall is destroyed, the four splitters are closed, no
\* subscription is live, and a BYE has been sent unless the remote's
\* notification had ended the session before; the failure starts no fetch of
\* sip options, no new SipCall and no further invite.
C10_FatalInviteFailureAmended ==
    /\ [](result \in GenericErrors =>
            /\ result = inviteError
            /\ pc = "rejected"
            /\ hasCallEnded
            /\ byeCount = (IF endedBy = "remote" THEN 0 ELSE 1)
            /\ destroyed[sipCall] >= 1
            /\ \A h \in Handles : closes[h] >= 1
            /\ live = {})
    /\ [][(pc = "invite" /\ inviteError' \in GenericErrors) =>
            /\ result' = inviteError'
            /\ fetchCount' = fetchCount
            /\ sipCall' = sipCall
            /\ inviteCount' = inviteCount]_vars

\* the failed invite itself ended the session
C10_Witness ==
    /\ result = "Busy"
    /\ endedBy = "failure"
    /\ byeCount = 1
    /\ fetchCount = 1

----------------------------------------------------------------------------
(* After the teardown *)

\* C11: once the teardown has run, the session does nothing more, also when
\* start() resumes from an await the teardown fell into: no STUN binding
\* request, no timer or other subscription made, no STUN responder or message
\* handler installed, no close() on a splitter, no FfmpegProcess spawned, no
\* SipCall constructed.
C11_NoEffectAfterTeardown ==
    [][ hasCallEnded =>
          UNCHANGED <<stunSent, stunLog, live, registered, responders, handlers,
                      closes, ffStarted, sipCall>> ]_vars

\* C12: when the session has ended and no start() is suspended, the current
\* SipCall is destroyed, every splitter is closed and no subscription is live.
C12_NothingLeftLive ==
    (hasCallEnded /\ pc \in {"idle", "returned", "rejected"}) =>
        /\ destroyed[sipCall] >= 1
        /\ \A h \in Handles : closes[h] >= 1
        /\ live = {}

\* C13: a start() of the caller that throws AlreadyEnded changes no state: the
\* flags, the SipCall and the splitters are what they were before the call,
\* so the caller's next start() throws AlreadyEnded again.
C13_AlreadyEndedChangesNothing ==
    /\ [][ (startCalls' = startCalls + 1 /\ thrown' = "AlreadyEnded") =>
             UNCHANGED <<hasStarted, hasCallEnded, sipCall, destroyed,
                         audioRtcpSplitter, videoRtcpSplitter, closes>> ]_vars
    /\ [](lastCall.previous = "AlreadyEnded" => lastCall.error = "AlreadyEnded")

----------------------------------------------------------------------------
(* The transcoder and the STUN requests *)

\* C16: once the FfmpegProcess has been started, its stop() has been called
\* exactly when the session has ended, whichever trigger ended it and also
\* when the session had ended before startTranscoder subscribed to
\* onCallEnded; stop() is never called while the session has not ended.
C16_BridgeStoppedByCallEnded ==
    /\ ffStarted => ffStops = (IF hasCallEnded THEN 1 ELSE 0)
    /\ ~ffStarted => ffStops = 0

\* the FfmpegProcess was started by a start() that resumed after stop(): the
\* audio RTCP splitter was closed by the teardown and again by the aliasing
C16_Witness ==
    /\ ffStarted
    /\ ffStops = 1
    /\ endedBy = "stop"
    /\ pc = "returned"
    /\ closes["audioRtcp"] > 1

\* the splitters of a stream: its RTP splitter and its original RTCP splitter
SplittersOf(s) == {s, OriginalRtcp(s)}

\* C19: every STUN binding request of a stream is sent with that stream's RTP
\* splitter and that stream's current RTCP reference, never with a splitter
\* of the other stream.
C19_StunUsesOwnSplitters ==
    \A r \in stunLog :
        /\ r.rtpSplitter = r.type
        /\ r.rtcpSplitter = RtcpReference(r.type)
        /\ r.rtcpSplitter \in SplittersOf(r.type)

\* the errors start() can reject with that are no usage errors
FailureErrors == GenericErrors \cup {"PortError", "FetchError"}

\* C20: when start() has rejected with an error that is no usage error, the
\* session has ended and its teardown has run: SipCall destroyed, splitters
\* closed, no subscription live.
C20_RejectedStartIsTornDown ==
    result \in FailureErrors =>
        /\ hasCallEnded
        /\ destroyed[sipCall] >= 1
        /\ \A h \in Handles : closes[h] >= 1
        /\ live = {}

----------------------------------------------------------------------------
(* The transcoder *)

\* the local port startTranscoder associates with a splitter
LocalPort(h) ==
    CASE h = "audio" -> audioPort
      [] h = "audioRtcp" -> audioPort + 1
      [] h = "video" -> videoPort
      [] h = "videoRtcp" -> videoPort + 1

\* C14: the transcoder registers a handler on the audio RTP and RTCP splitters
\* and, unless video transcoding is disabled, on the video RTP and RTCP
\* splitters, and on no video splitter when it is disabled; a handler answers
\* no target to a STUN message and exactly the local port of its splitter
\* (audioPort, audioPort + 1, videoPort, videoPort + 1) to any other message.
C14_ForwardingHandlers ==
    /\ ffStarted =>
          {hd.splitter : hd \in handlers} =
              (IF ffmpegOptions = "novideo" THEN {"audio", "audioRtcp"} ELSE Handles)
    /\ ~ffStarted => handlers = {}
    /\ \A hd \in handlers : hd.port = LocalPort(hd.splitter)
    /\ forwarded.splitter # "none" =>
          /\ forwarded.message = "stun" => forwarded.answer = {}
          /\ forwarded.message # "stun" =>
                forwarded.answer = {LocalPort(forwarded.splitter)}

\* the video RTCP splitter of a transcoder with video answered videoPort + 1 to
\* an RTCP packet
C14_Witness ==
    /\ ffmpegOptions = "video"
    /\ forwarded.splitter = "videoRtcp"
    /\ forwarded.message = "rtcp"
    /\ forwarded.answer = {videoPort + 1}

\* an audio-only transcoder dropped a STUN message on the audio splitter
C14_WitnessStun ==
    /\ ffmpegOptions = "novideo"
    /\ forwarded.splitter = "audio"
    /\ forwarded.message = "stun"
    /\ forwarded.answer = {}

\* the fixed lines every document starts with
Preamble ==
    <<"v=0", "o=105202070 3747 461 IN IP4 127.0.0.1", "s=Talk",
      "c=IN IP4 127.0.0.1", "b=AS:380", "t=0 0",
      "a=rtcp-xr:rcvr-rtt=all:10000 stat-summary=loss,dup,jitt,TTL voip-metrics">>

MediaLines(doc) ==
    SelectSeq([i \in 1..Len(doc) |-> doc[i].text],
              LAMBDA t : t \in {"m=audio ${audioPort} RTP/SAVP 0 101",
                                "m=video ${videoPort} RTP/SAVP 99"})

VideoAttributes ==
    {"a=rtpmap:99 H264/90000", CryptoLineOf("video"),
     "a=rtcp:${videoRtcpPort} IN IP4 127.0.0.1"}

\* C15: the document written to the transcoder starts with the fixed preamble
\* and then holds exactly the m=audio line when video is disabled, and m=audio
\* followed by m=video otherwise; an audio-only document holds no video rtpmap,
\* crypto or rtcp attribute; and no line of the document is empty, whatever
\* the crypto lines were.
C15_SdpDocument ==
    ffStarted =>
        /\ Len(stdin) >= Len(Preamble)
        /\ \A i \in 1..Len(Preamble) : stdin[i].text = Preamble[i]
        /\ MediaLines(stdin) =
              (IF ffmpegOptions = "novideo"
               THEN <<"m=audio ${audioPort} RTP/SAVP 0 101">>
               ELSE <<"m=audio ${audioPort} RTP/SAVP 0 101",
                      "m=video ${videoPort} RTP/SAVP 99">>)
        /\ ffmpegOptions = "novideo" =>
              \A i \in 1..Len(stdin) :
                  /\ stdin[i].text \notin VideoAttributes
                  /\ stdin[i].port \notin {videoPort, videoPort + 1}
        /\ \A i \in 1..Len(stdin) : stdin[i].text # ""

\* an audio-only document was written although the audio crypto line was empty
C15_Witness ==
    /\ ffStarted
    /\ ffmpegOptions = "novideo"
    /\ cryptoLine["audio"] = ""
    /\ Len(stdin) = Len(Preamble) + 3

\* a document with video was written with both crypto lines
C15_WitnessVideo ==
    /\ ffStarted
    /\ ffmpegOptions = "video"
    /\ cryptoLine["audio"] # "" /\ cryptoLine["video"] # ""
    /\ Len(stdin) = Len(Preamble) + 8

----------------------------------------------------------------------------
(* Order of the calls *)

\* the positions of the log holding a call of one of ops on a splitter of s
Positions(log, ops, s) ==
    {i \in 1..Len(log) :
        log[i].op \in ops /\ log[i].via \in {s \o "Splitter", s \o "RtcpSplitter"}}

\* C17: when start() is given ffmpeg options, every handler the transcoder
\* registers on the RTP and RTCP splitters of a stream is registered before the
\* STUN responder of that stream is created and before the first STUN binding
\* request of that stream is sent, in the ICE round or by the keep-alive timer.
C17_HandlersBeforeStun ==
    \A s \in Streams :
        \A i \in Positions(startLog, {"addMessageHandler"}, s) :
            \A j \in Positions(startLog, {"createStunResponder",
                                          "sendStunBindingRequest"}, s) : i < j

\* start() with ffmpeg options ran the ICE round after registering the four
\* handlers
C17_Witness ==
    /\ ffmpegOptions = "video"
    /\ pc = "returned"
    /\ responders = Streams
    /\ \A s \in Streams :
          /\ Cardinality(Positions(startLog, {"addMessageHandler"}, s)) = 2
          /\ Cardinality(Positions(startLog, {"createStunResponder",
                                              "sendStunBindingRequest"}, s)) = 2

\* the keep-alive timer sent its first requests after the audio handlers
C17_WitnessKeepAlive ==
    /\ ffmpegOptions = "novideo"
    /\ responders = {}
    /\ ticks = 1
    /\ Positions(startLog, {"addMessageHandler"}, "audio") # {}
    /\ Positions(startLog, {"sendStunBindingRequest"}, "audio") # {}

\* the calls of a log as pairs of the operation and the field it went through
Calls(log) == [i \in 1..Len(log) |-> <<log[i].op, log[i].via>>]

FixedOrder ==
    << <<"next", "onCallEndedSubject">>,
       <<"destroy", "sipCall">>,
       <<"close", "audioSplitter">>,
       <<"close", "audioRtcpSplitter">>,
       <<"close", "videoSplitter">>,
       <<"close", "videoRtcpSplitter">>,
       <<"unsubscribe", "this">> >>

\* C18: the teardown makes its calls in one order: the BYE if one is sent,
\* the publication of onCallEnded, the destruction of the SipCall, the close
\* of the audio RTP, audio RTCP, video RTP and video RTCP splitters, and the
\* unsubscription; the SipCall is destroyed before any splitter is closed.
C18_TeardownOrder ==
    /\ ~hasCallEnded => teardownLog = <<>>
    /\ hasCallEnded =>
          Calls(teardownLog) =
              (IF byeCount > 0 THEN << <<"sendBye", "sipCall">> >> ELSE <<>>)
              \o FixedOrder
    /\ \A i, j \in 1..Len(teardownLog) :
          (teardownLog[i].op = "destroy" /\ teardownLog[j].op = "close") => i < j

\* a teardown with a BYE closed the audio splitter through the aliased
\* audioRtcpSplitter
C18_Witness ==
    /\ hasCallEnded
    /\ byeCount = 1
    /\ Len(teardownLog) = 8
    /\ teardownLog[5] = Event("close", "audioRtcpSplitter", "audio")

\* a teardown started by the remote end sent no BYE
C18_WitnessRemote ==
    /\ hasCallEnded
    /\ endedBy = "remote"
    /\ Len(teardownLog) = 7
    /\ teardownLog[1].op = "next"

============================================================================
